---- MODULE Spec2Model ----
(***************************************************************************)
(* Slug validation of the gerbi page form (gerbi/admin/forms.py,           *)
(* PageForm.clean_slug) over a page tree with localized slug Content rows  *)
(* and page/site membership.                                               *)
(*                                                                         *)
(* A slug is a sequence of one-character strings.  The page store is       *)
(*   parent  : existing page id -> parent page id (0 = root level)         *)
(*   content : the Content rows of type "slug", one per (page, language)   *)
(*   sites   : existing page id -> set of site ids                         *)
(* One request is validated at a time: Validate runs clean_slug on a bound *)
(* form and records its outcome; SaveModel stores an accepted form,        *)
(* Redisplay drops a rejected one.                                         *)
(***************************************************************************)
EXTENDS Integers, Sequences, FiniteSets, TLC

VARIABLES parent, content, sites,
          GERBI_UNIQUE_SLUG_REQUIRED, GERBI_USE_SITE_ID, GERBI_HIDE_SITES,
          form, result, pc

store    == <<parent, content, sites>>
settings == <<GERBI_UNIQUE_SLUG_REQUIRED, GERBI_USE_SITE_ID, GERBI_HIDE_SITES>>
vars     == <<parent, content, sites, GERBI_UNIQUE_SLUG_REQUIRED,
              GERBI_USE_SITE_ID, GERBI_HIDE_SITES, form, result, pc>>

(***************************************************************************)
(* Bounds and configuration                                                *)
(***************************************************************************)
MaxPages == 2

MaxTreePages == 3

GERBI_DEFAULT_LANGUAGE == "en"

GERBI_LANGUAGES == <<"en", "fr">>

Languages == {GERBI_LANGUAGES[i] : i \in 1..Len(GERBI_LANGUAGES)}

SITE_ID == 1

Sites == {1, 2}

Positions == {"left", "right", "first-child"}

(* error messages *)
default_slug_required == "Every page need a slug in the default language"

another_page_error == "Another page with this slug already exists"

sibling_position_error == "A sibling with this slug already exists at the targeted position"

child_error == "A child with this slug already exists at the targeted position"

sibling_error == "A sibling with this slug already exists"

sibling_root_error == "A sibling with this slug already exists at the root level"

(***************************************************************************)
(* slugify(value.strip())                                                  *)
(***************************************************************************)
IsSpace(c) == c = " "

IsWord(c) == c \in {"a", "b", "A", "B"}

LowerChar(c) == IF c = "A" THEN "a" ELSE IF c = "B" THEN "b" ELSE c

RECURSIVE LStrip(_)
LStrip(s) == IF s # <<>> /\ IsSpace(Head(s)) THEN LStrip(Tail(s)) ELSE s

RECURSIVE RStrip(_)
RStrip(s) ==
    IF s # <<>> /\ IsSpace(s[Len(s)]) THEN RStrip(SubSeq(s, 1, Len(s) - 1)) ELSE s

Strip(s) == RStrip(LStrip(s))

(* re.sub('[^\w\s-]', '', value) *)
KeepSafe(s) == SelectSeq(s, LAMBDA c : IsWord(c) \/ IsSpace(c) \/ c = "-")

Lower(s) == [i \in 1..Len(s) |-> LowerChar(s[i])]

IsSep(c) == IsSpace(c) \/ c = "-"

(* re.sub('[-\s]+', '-', value) *)
RECURSIVE Hyphenate(_)
Hyphenate(s) ==
    IF s = <<>> THEN <<>>
    ELSE IF IsSep(Head(s))
         THEN IF Tail(s) # <<>> /\ IsSep(Head(Tail(s)))
              THEN Hyphenate(Tail(s))
              ELSE <<"-">> \o Hyphenate(Tail(s))
         ELSE <<Head(s)>> \o Hyphenate(Tail(s))

slugify(value) == Hyphenate(Lower(Strip(KeepSafe(value))))

(***************************************************************************)
(* Page tree, Content and site queries                                     *)
(***************************************************************************)
Pages == DOMAIN parent

get_siblings(page) == {q \in Pages : q # page /\ parent[q] = parent[page]}

get_children(page) == {q \in Pages : parent[q] = page}

root == {q \in Pages : parent[q] = 0}

SlugContent(page) == {c \in content : c.page = page}

Body(page, language) ==
    IF \E c \in content : c.page = page /\ c.language = language
    THEN (CHOOSE c \in content : c.page = page /\ c.language = language).body
    ELSE <<>>

(* Page.slug(): the default language's slug, else that of the first        *)
(* language that has one, else empty                                       *)
PageSlug(page) ==
    IF Body(page, GERBI_DEFAULT_LANGUAGE) # <<>>
    THEN Body(page, GERBI_DEFAULT_LANGUAGE)
    ELSE IF \E i \in 1..Len(GERBI_LANGUAGES) : Body(page, GERBI_LANGUAGES[i]) # <<>>
         THEN Body(page, GERBI_LANGUAGES[
                  CHOOSE i \in 1..Len(GERBI_LANGUAGES) :
                      /\ Body(page, GERBI_LANGUAGES[i]) # <<>>
                      /\ \A j \in 1..(i - 1) : Body(page, GERBI_LANGUAGES[j]) = <<>>])
         ELSE <<>>

(***************************************************************************)
(* PageForm.clean_slug                                                     *)
(***************************************************************************)
Ok(slug) == [error |-> "", slug |-> slug]

ValidationError(message) == [error |-> message, slug |-> <<>>]

site_ids(f) == IF GERBI_HIDE_SITES THEN {SITE_ID} ELSE f.sites

intersects_sites(f, sibling) ==
    IF GERBI_USE_SITE_ID THEN sites[sibling] \cap site_ids(f) # {} ELSE TRUE

(* variant: the default language's check made on the raw input *)
SlugRequiredOfRawInput(f, slug) ==
    IF f.language = GERBI_DEFAULT_LANGUAGE
    THEN Len(f.slug) = 0
    ELSE SlugContent(f.instance) = {}

(* variant: an empty slug refused in every language *)
SlugRequiredInEveryLanguage(f, slug) ==
    \/ Len(slug) = 0
    \/ f.language # GERBI_DEFAULT_LANGUAGE /\ SlugContent(f.instance) = {}

(* variant: no check of existing slug content for the other languages *)
SlugRequiredDefaultOnly(f, slug) ==
    f.language = GERBI_DEFAULT_LANGUAGE /\ Len(slug) = 0

SlugRequired(f, slug) ==
    IF f.language = GERBI_DEFAULT_LANGUAGE
    THEN Len(slug) = 0
    ELSE SlugContent(f.instance) = {}

(* variant: the edited page's own rows not excluded *)
AnotherPageIncludingSelf(f, slug) ==
    \E c \in content : c.body = slug

AnotherPage(f, slug) ==
    IF f.instance # 0
    THEN \E c \in content : c.page # f.instance /\ c.body = slug
    ELSE \E c \in content : c.body = slug

(* variant: the target's own slug not appended *)
TargetSiblingSlugsWithoutTarget(f) ==
    {PageSlug(sibling) : sibling \in
        {s \in get_siblings(f.target) : intersects_sites(f, s)}}

(* variant: the edited page left out of the target's siblings *)
TargetSiblingSlugsExcludingSelf(f) ==
    {PageSlug(sibling) : sibling \in
        {s \in get_siblings(f.target) \ {f.instance} : intersects_sites(f, s)}}
    \cup {PageSlug(f.target)}

TargetSiblingSlugs(f) ==
    {PageSlug(sibling) : sibling \in
        {s \in get_siblings(f.target) : intersects_sites(f, s)}}
    \cup {PageSlug(f.target)}

(* variant: the target's siblings taken for its children *)
TargetChildSlugsOfSiblings(f) ==
    {PageSlug(sibling) : sibling \in
        {s \in get_siblings(f.target) : intersects_sites(f, s)}}

TargetChildSlugs(f) ==
    {PageSlug(sibling) : sibling \in
        {s \in get_children(f.target) : intersects_sites(f, s)}}

(* variant: the edited page itself kept among its siblings *)
InstanceSiblingSlugsWithSelf(f) ==
    {PageSlug(sibling) : sibling \in
        {s \in Pages : parent[s] = parent[f.instance] /\ intersects_sites(f, s)}}

InstanceSiblingSlugs(f) ==
    {PageSlug(sibling) : sibling \in
        {s \in get_siblings(f.instance) \ {f.instance} : intersects_sites(f, s)}}

RootSlugs(f) ==
    {PageSlug(sibling) : sibling \in {s \in root : intersects_sites(f, s)}}

PositionCheck(f, slug) ==
    IF f.target # 0 /\ f.position # ""
    THEN IF f.position \in {"right", "left"} /\ slug \in TargetSiblingSlugs(f)
         THEN ValidationError(sibling_position_error)
         ELSE IF f.position = "first-child" /\ slug \in TargetChildSlugs(f)
              THEN ValidationError(child_error)
              ELSE Ok(slug)
    ELSE IF f.instance # 0
         THEN IF slug \in InstanceSiblingSlugs(f)
              THEN ValidationError(sibling_error)
              ELSE Ok(slug)
         ELSE IF slug \in RootSlugs(f)
              THEN ValidationError(sibling_root_error)
              ELSE Ok(slug)

clean_slug(f) ==
    LET slug == slugify(Strip(f.slug)) IN
    IF SlugRequired(f, slug)
    THEN ValidationError(default_slug_required)
    ELSE IF GERBI_UNIQUE_SLUG_REQUIRED /\ AnotherPage(f, slug)
         THEN ValidationError(another_page_error)
         ELSE IF ~GERBI_UNIQUE_SLUG_REQUIRED
              THEN PositionCheck(f, slug)
              ELSE Ok(slug)

(***************************************************************************)
(* The bound form: instance 0 is a page not saved yet, target 0 and        *)
(* position "" are absent request values.                                  *)
(***************************************************************************)
RawSlugs ==
    { <<>>, <<" ", "!">>, <<"a">>, <<" ", "A", "!">>, <<"A", " ", "-", "b">> }

SiteChoices == SUBSET Sites \ {{}}

FormSites ==
    IF ~GERBI_USE_SITE_ID THEN {{SITE_ID}}
    ELSE IF GERBI_HIDE_SITES THEN {{}}
    ELSE SiteChoices

NoForm ==
    [instance |-> 0, language |-> GERBI_DEFAULT_LANGUAGE, slug |-> <<>>,
     target |-> 0, position |-> "", sites |-> {}]

Pending == [error |-> "pending", slug |-> <<>>]

(* with a third slug, for trees of three siblings *)
TreeRawSlugs == RawSlugs \cup { <<"b">> }

Forms(languages, slugs) ==
    [instance : {0} \cup Pages,
     language : languages, slug : slugs,
     target : {0} \cup Pages, position : {""} \cup Positions, sites : FormSites]

(***************************************************************************)
(* ModelAdmin.save_model: save the page, move it, store the slug content   *)
(***************************************************************************)
RECURSIVE IsDescendantOrSelf(_, _)
IsDescendantOrSelf(node, ancestor) ==
    IF node = 0 THEN FALSE
    ELSE IF node = ancestor THEN TRUE
    ELSE IsDescendantOrSelf(parent[node], ancestor)

Moves(f) == f.target # 0 /\ f.position # ""

(* move_to refuses a target that is the page itself or one of its          *)
(* descendants; the request then fails and nothing is stored               *)
InvalidMove(f) ==
    Moves(f) /\ f.instance # 0 /\ IsDescendantOrSelf(f.target, f.instance)

SavedPage(f) == IF f.instance # 0 THEN f.instance ELSE Cardinality(Pages) + 1

SavedParent(f) ==
    IF Moves(f)
    THEN IF f.position = "first-child" THEN f.target ELSE parent[f.target]
    ELSE IF f.instance # 0 THEN parent[f.instance] ELSE 0

SavedSites(f) ==
    IF GERBI_USE_SITE_ID /\ ~GERBI_HIDE_SITES THEN f.sites ELSE {SITE_ID}

set_or_create_content(page, language, body) ==
    {c \in content : ~(c.page = page /\ c.language = language)}
    \cup {[page |-> page, language |-> language, body |-> body]}

(***************************************************************************)
(* Actions                                                                 *)
(***************************************************************************)
Validate(languages, slugs) ==
    /\ pc = "idle"
    /\ \E f \in Forms(languages, slugs) :
          /\ form' = f
          /\ result' = clean_slug(f)
    /\ pc' = "validated"
    /\ UNCHANGED <<store, settings>>

(* a new page is saved only while the store has room for it *)
SaveModel(maxPages) ==
    /\ pc = "validated"
    /\ result.error = ""
    /\ form.instance = 0 => Cardinality(Pages) < maxPages
    /\ ~InvalidMove(form)
    /\ LET page == SavedPage(form) IN
          /\ parent' = [p \in Pages \cup {page} |->
                            IF p = page THEN SavedParent(form) ELSE parent[p]]
          /\ sites' = [p \in Pages \cup {page} |->
                            IF p = page THEN SavedSites(form) ELSE sites[p]]
          /\ content' = set_or_create_content(page, form.language, result.slug)
    /\ pc' = "idle"
    /\ form' = NoForm
    /\ result' = Pending
    /\ UNCHANGED settings

MoveFails ==
    /\ pc = "validated"
    /\ result.error = ""
    /\ InvalidMove(form)
    /\ pc' = "idle"
    /\ form' = NoForm
    /\ result' = Pending
    /\ UNCHANGED <<store, settings>>

Redisplay ==
    /\ pc = "validated"
    /\ result.error # ""
    /\ pc' = "idle"
    /\ form' = NoForm
    /\ result' = Pending
    /\ UNCHANGED <<store, settings>>

EmptyStore ==
    /\ parent = <<>>
    /\ content = {}
    /\ sites = <<>>
    /\ form = NoForm
    /\ result = Pending
    /\ pc = "idle"

Init ==
    /\ EmptyStore
    /\ GERBI_UNIQUE_SLUG_REQUIRED \in BOOLEAN
    /\ GERBI_USE_SITE_ID \in BOOLEAN
    /\ GERBI_HIDE_SITES \in {FALSE} \cup {h \in {TRUE} : GERBI_USE_SITE_ID}

Next ==
    \/ Validate(Languages, RawSlugs)
    \/ SaveModel(MaxPages)
    \/ MoveFails
    \/ Redisplay

Spec == Init /\ [][Next]_vars

(* position-based uniqueness only: unique mode and site scoping switched   *)
(* off, every request in the default language                              *)
InitTree ==
    /\ EmptyStore
    /\ GERBI_UNIQUE_SLUG_REQUIRED = FALSE
    /\ GERBI_USE_SITE_ID = FALSE
    /\ GERBI_HIDE_SITES = FALSE

NextTree ==
    \/ Validate({GERBI_DEFAULT_LANGUAGE}, TreeRawSlugs)
    \/ SaveModel(MaxTreePages)
    \/ MoveFails
    \/ Redisplay

SpecTree == InitTree /\ [][NextTree]_vars

(***************************************************************************)
(* Vocabulary of the claims: the validated request and the rules as the    *)
(* specification words them.                                               *)
(***************************************************************************)
Validated == pc = "validated"

NormalizedSlug == slugify(Strip(form.slug))

HasTarget == form.target # 0 /\ form.position # ""

PositionMode == ~GERBI_UNIQUE_SLUG_REQUIRED /\ ~GERBI_USE_SITE_ID

RequiredRuleViolated ==
    \/ form.language = GERBI_DEFAULT_LANGUAGE /\ NormalizedSlug = <<>>
    \/ form.language # GERBI_DEFAULT_LANGUAGE
          /\ ~(\E c \in content : c.page = form.instance)

OtherPageHasSlug ==
    \E c \in content : c.page # form.instance /\ c.body = NormalizedSlug

SlugsOf(pages) == {PageSlug(q) : q \in pages}

TargetLevel == {q \in Pages : parent[q] = parent[form.target]}

TargetChildren == {q \in Pages : parent[q] = form.target}

OwnSiblings == {q \in Pages : q # form.instance /\ parent[q] = parent[form.instance]}

RootLevel == {q \in Pages : parent[q] = 0}

ComparisonSet ==
    IF HasTarget
    THEN IF form.position \in {"left", "right"} THEN TargetLevel ELSE TargetChildren
    ELSE IF form.instance # 0 THEN OwnSiblings ELSE RootLevel

ContextError ==
    IF HasTarget
    THEN IF form.position \in {"left", "right"}
         THEN sibling_position_error ELSE child_error
    ELSE IF form.instance # 0 THEN sibling_error ELSE sibling_root_error

PositionErrors ==
    {sibling_position_error, child_error, sibling_error, sibling_root_error}

ScopeSites == IF GERBI_HIDE_SITES THEN {SITE_ID} ELSE form.sites

InScope(q) == GERBI_USE_SITE_ID => sites[q] \cap ScopeSites # {}

PositionRuleViolated ==
    \E q \in ComparisonSet : InScope(q) /\ PageSlug(q) = NormalizedSlug

(***************************************************************************)
(* C1: with unique mode and site scoping off, whatever creations, slug     *)
(* edits and moves have been accepted by clean_slug, no two pages with the *)
(* same parent (or both at root level) have the same slug.                 *)
(***************************************************************************)
C1_SiblingSlugsDistinct ==
    \A p \in Pages : \A q \in Pages :
        (p # q /\ parent[p] = parent[q]) => PageSlug(p) # PageSlug(q)

(* page 1 was moved below the later page 3, beside page 2, and repeats its *)
(* new parent's slug                                                       *)
C1_Witness ==
    /\ pc = "idle"
    /\ Pages = {1, 2, 3}
    /\ parent[1] = 3
    /\ parent[2] = 3
    /\ PageSlug(1) = PageSlug(3)

(***************************************************************************)
(* C2: in the default language an empty normalized slug always fails with  *)
(* the default-slug-required error, for every page, target, position,      *)
(* sites and setting.                                                      *)
(***************************************************************************)
C2_EmptyDefaultSlugRejected ==
    (Validated /\ form.language = GERBI_DEFAULT_LANGUAGE /\ NormalizedSlug = <<>>)
        => result = ValidationError(default_slug_required)

C2_Witness ==
    /\ Validated
    /\ form.language = GERBI_DEFAULT_LANGUAGE
    /\ form.slug # <<>>
    /\ NormalizedSlug = <<>>
    /\ form.instance # 0
    /\ HasTarget
    /\ GERBI_UNIQUE_SLUG_REQUIRED
    /\ GERBI_USE_SITE_ID
    /\ result.error = default_slug_required

(***************************************************************************)
(* C3: in unique mode a slug that passes the required-slug rules fails     *)
(* with the duplicate-page error exactly when a slug Content row of a page *)
(* other than the edited one has that body, wherever that page is and      *)
(* whatever its sites; no position-based error is produced in this mode.   *)
(***************************************************************************)
C3_UniqueModeGlobal ==
    (Validated /\ GERBI_UNIQUE_SLUG_REQUIRED)
        => /\ result.error \notin PositionErrors
           /\ ~RequiredRuleViolated =>
                 /\ result.error = another_page_error <=> OtherPageHasSlug
                 /\ ~OtherPageHasSlug => result = Ok(NormalizedSlug)

(* every duplicate is a row of a page outside the comparison set and on    *)
(* sites disjoint from the submitted ones                                  *)
C3_Witness ==
    /\ Validated
    /\ GERBI_UNIQUE_SLUG_REQUIRED
    /\ GERBI_USE_SITE_ID
    /\ ~GERBI_HIDE_SITES
    /\ HasTarget
    /\ form.instance # 0
    /\ result.error = another_page_error
    /\ \A c \in content : (c.page # form.instance /\ c.body = NormalizedSlug)
          => /\ c.page \notin ComparisonSet
             /\ sites[c.page] \cap form.sites = {}

(***************************************************************************)
(* C4: with site scoping on and unique mode off, a candidate whose sites   *)
(* are disjoint from the site ids never blocks the slug: if every page of  *)
(* the comparison set that holds the slug is on disjoint sites, clean_slug *)
(* passes.                                                                 *)
(***************************************************************************)
C4_DisjointSitesNeverBlock ==
    (/\ Validated
     /\ ~GERBI_UNIQUE_SLUG_REQUIRED
     /\ GERBI_USE_SITE_ID
     /\ ~RequiredRuleViolated
     /\ \A q \in ComparisonSet :
           PageSlug(q) = NormalizedSlug => sites[q] \cap ScopeSites = {})
        => result = Ok(NormalizedSlug)

(***************************************************************************)
(* C5 as claimed: with unique mode and site scoping off and a target and   *)
(* position given, left/right fails with the sibling-at-position error     *)
(* exactly when the slug is the target's or one of its siblings', and      *)
(* first-child fails with the child-at-position error exactly when the     *)
(* slug is one of the target's children's.                                 *)
(***************************************************************************)
C5_Original ==
    (Validated /\ PositionMode /\ HasTarget)
        => /\ form.position \in {"left", "right"} =>
                 (result.error = sibling_position_error
                     <=> NormalizedSlug \in SlugsOf(TargetLevel))
           /\ form.position = "first-child" =>
                 (result.error = child_error
                     <=> NormalizedSlug \in SlugsOf(TargetChildren))

(***************************************************************************)
(* C5 amended: the same, for a form that passes the default-slug-required  *)
(* rule; and when the slug is not in that set the form passes, whatever    *)
(* slugs pages elsewhere in the tree have.                                 *)
(***************************************************************************)
C5_TargetedComparison ==
    (Validated /\ PositionMode /\ HasTarget /\ ~RequiredRuleViolated)
        => /\ form.position \in {"left", "right"} =>
                 IF NormalizedSlug \in SlugsOf(TargetLevel)
                 THEN result = ValidationError(sibling_position_error)
                 ELSE result = Ok(NormalizedSlug)
           /\ form.position = "first-child" =>
                 IF NormalizedSlug \in SlugsOf(TargetChildren)
                 THEN result = ValidationError(child_error)
                 ELSE result = Ok(NormalizedSlug)

(* a new page is accepted as first child of a target that has children,    *)
(* although a root page holds its slug                                     *)
C5_Witness ==
    /\ Validated
    /\ PositionMode
    /\ form.instance = 0
    /\ form.target # 0
    /\ form.position = "first-child"
    /\ NormalizedSlug \in SlugsOf(RootLevel)
    /\ TargetChildren # {}
    /\ result = Ok(NormalizedSlug)

(***************************************************************************)
(* C6 as claimed: with unique mode and site scoping off and no target and  *)
(* position, editing a page fails with the sibling error exactly when the  *)
(* slug is one of its other siblings' (so a page re-validated with its own *)
(* slug passes), and creating a page fails with the sibling-at-root error  *)
(* exactly when the slug is a root page's.                                 *)
(***************************************************************************)
C6_Original ==
    (Validated /\ PositionMode /\ ~HasTarget)
        => /\ form.instance # 0 =>
                 /\ result.error = sibling_error
                       <=> NormalizedSlug \in SlugsOf(OwnSiblings)
                 /\ NormalizedSlug = PageSlug(form.instance)
                       => result = Ok(NormalizedSlug)
           /\ form.instance = 0 =>
                 (result.error = sibling_root_error
                     <=> NormalizedSlug \in SlugsOf(RootLevel))

(***************************************************************************)
(* C6 amended: for a form that passes the default-slug-required rule,      *)
(* editing a page fails with the sibling error exactly when the slug is    *)
(* one of its other siblings' (its own slug never blocks it) and creating  *)
(* a page fails with the sibling-at-root error exactly when the slug is a  *)
(* root page's; otherwise the form passes.                                 *)
(***************************************************************************)
C6_UntargetedComparison ==
    (Validated /\ PositionMode /\ ~HasTarget)
        => /\ form.instance # 0 =>
                 (result.error = sibling_error
                     <=> NormalizedSlug \in SlugsOf(OwnSiblings))
           /\ (form.instance # 0 /\ ~RequiredRuleViolated) =>
                 IF NormalizedSlug \in SlugsOf(OwnSiblings)
                 THEN result = ValidationError(sibling_error)
                 ELSE result = Ok(NormalizedSlug)
           /\ (form.instance = 0 /\ ~RequiredRuleViolated) =>
                 IF NormalizedSlug \in SlugsOf(RootLevel)
                 THEN result = ValidationError(sibling_root_error)
                 ELSE result = Ok(NormalizedSlug)

(* a page that has siblings is re-validated with its own slug and passes   *)
C6_Witness ==
    /\ Validated
    /\ PositionMode
    /\ ~HasTarget
    /\ form.instance # 0
    /\ OwnSiblings # {}
    /\ NormalizedSlug = PageSlug(form.instance)
    /\ result = Ok(NormalizedSlug)

(***************************************************************************)
(* C7: in a non-default language a page without any slug Content row (a    *)
(* new page in particular) fails with the default-slug-required error      *)
(* whatever the slug; a page with a slug row does not fail this rule, even *)
(* with an empty slug.                                                     *)
(***************************************************************************)
C7_NonDefaultNeedsExistingSlug ==
    (Validated /\ form.language # GERBI_DEFAULT_LANGUAGE)
        => IF \E c \in content : c.page = form.instance
           THEN result.error # default_slug_required
           ELSE result = ValidationError(default_slug_required)

(* a saved page is localized with an empty slug and passes                 *)
C7_Witness ==
    /\ Validated
    /\ form.language # GERBI_DEFAULT_LANGUAGE
    /\ form.instance # 0
    /\ NormalizedSlug = <<>>
    /\ result = Ok(<<>>)

(***************************************************************************)
(* C8: from an empty store, whatever forms have been accepted and saved in *)
(* any language, every page has a non-empty slug in the default language.  *)
(***************************************************************************)
C8_DefaultSlugNonEmpty ==
    \A p \in Pages : Body(p, GERBI_DEFAULT_LANGUAGE) # <<>>

(* a page saved in the other language with an empty slug                   *)
C8_Witness ==
    /\ pc = "idle"
    /\ \E c \in content :
          c.language # GERBI_DEFAULT_LANGUAGE /\ c.body = <<>>

(***************************************************************************)
(* C9: clean_slug reports the first violated rule in the order required    *)
(* slug, duplicate page (unique mode on), position (unique mode off), and  *)
(* returns the normalized slug when no rule is violated.                   *)
(***************************************************************************)
C9_FirstViolatedRule ==
    Validated =>
        IF RequiredRuleViolated
        THEN result = ValidationError(default_slug_required)
        ELSE IF GERBI_UNIQUE_SLUG_REQUIRED
             THEN IF OtherPageHasSlug
                  THEN result = ValidationError(another_page_error)
                  ELSE result = Ok(NormalizedSlug)
             ELSE IF PositionRuleViolated
                  THEN result = ValidationError(ContextError)
                  ELSE result = Ok(NormalizedSlug)

(***************************************************************************)
(* C10 as claimed: with unique mode off, a saved page validated with its   *)
(* current slug fails with the sibling-at-position error when the target   *)
(* is one of its siblings (left/right) and with the child-at-position      *)
(* error when the target is its parent (first-child), and passes without a *)
(* target.                                                                 *)
(***************************************************************************)
C10_AtTarget ==
    /\ (/\ HasTarget
        /\ form.position \in {"left", "right"}
        /\ form.target \in OwnSiblings)
          => result = ValidationError(sibling_position_error)
    /\ (/\ HasTarget
        /\ form.position = "first-child"
        /\ form.target = parent[form.instance])
          => result = ValidationError(child_error)

C10_Original ==
    (/\ Validated
     /\ ~GERBI_UNIQUE_SLUG_REQUIRED
     /\ form.instance # 0
     /\ NormalizedSlug = PageSlug(form.instance))
        => /\ C10_AtTarget
           /\ form.target = 0 => result = Ok(NormalizedSlug)

(***************************************************************************)
(* C10 amended: the same with site scoping disabled as well, the form      *)
(* without a target passing unless another sibling holds the slug too.     *)
(***************************************************************************)
C10_SelfNotExcludedAtTarget ==
    (/\ Validated
     /\ PositionMode
     /\ form.instance # 0
     /\ NormalizedSlug = PageSlug(form.instance))
        => /\ C10_AtTarget
           /\ (form.target = 0 /\ NormalizedSlug \notin SlugsOf(OwnSiblings))
                 => result = Ok(NormalizedSlug)

(* a page keeps its slug and is rejected beside its own sibling            *)
C10_Witness ==
    /\ Validated
    /\ PositionMode
    /\ form.instance # 0
    /\ NormalizedSlug = PageSlug(form.instance)
    /\ form.position = "left"
    /\ form.target \in OwnSiblings
    /\ result = ValidationError(sibling_position_error)

====
